---- MODULE Spec2Model ----
(***************************************************************************)
(* Model of src/web/src/app/page.tsx: the Home component's model lifecycle *)
(* (the selectedModelId effect with its per-run `cancelled` flag) and the  *)
(* streaming chat session (handleSend, handleReset).                       *)
(*                                                                         *)
(* Strings that the code inspects (prompts, assistant text, error text)    *)
(* are sequences of one-character strings, so trim(), += and length are    *)
(* computed.  Every event handler or promise continuation is one action,   *)
(* followed by React's re-render and its effects (conversationRef).        *)
(***************************************************************************)
EXTENDS Integers, Sequences, FiniteSets, TLC

\* ------------------------------------------------------------- bounds
MaxLoads == 2        \* runs of the model-loading effect (init) in one behaviour
MaxTurns == 2        \* turns (user + assistant entry) a conversation may hold
MaxAggregate == 2    \* characters one stream delivers in all
MaxInFlight == 2     \* handleSend calls that may be awaiting at once

\* ------------------------------------------------------------- inputs
\* llamaModels: the filtered catalog, in catalog order.
llamaModels == <<"A", "B">>
ModelIds == {llamaModels[i] : i \in 1..Len(llamaModels)}

\* texts typed into the prompt box: blank, and a prompt inside blanks
Inputs == {<<" ">>, <<" ", "a", " ">>}

\* chunks a stream yields: delta.content is a string, or absent (undefined)
Chunks ==
  { [hasContent |-> FALSE, content |-> << >>],
    [hasContent |-> TRUE, content |-> <<"b">>] }
\* engine.getMessage() results
FinalTexts == {<< >>, <<"c">>}
\* error.message / String(error) of a failed generation
GenErrors == {<<"e">>}
\* error.message of a failed CreateMLCEngine
LoadErrors == {"net"}
\* InitProgressReport values handed to initProgressCallback; progress is in
\* tenths, Undefined when the field is 0/absent
Undefined == -1
ProgressReports ==
  { [progress |-> 0, text |-> ""],
    [progress |-> 0, text |-> "fetch"],
    [progress |-> 5, text |-> "fetch"] }

\* ------------------------------------------------------------- state
VARIABLES
  mounted,          \* the first render's effects have run
  selectedModelId,  \* useState, line 45
  engine,           \* useState, line 48: 0 = null, k = the instance made by load k
  engineStatus,     \* useState, line 49
  loadProgress,     \* useState, line 52: << >> = null, <<report>> otherwise
  isLoadingModel,   \* useState, line 55
  messages,         \* useState, line 57
  userInput,        \* useState, line 58
  isStreaming,      \* useState, line 59
  conversationRef,  \* useRef, line 63 (.current)
  loads,            \* one entry per run of init(): its closure and promise
  gens,             \* the handleSend calls that are awaiting: closure and position
  lastOp            \* the handler or continuation that ran last, with its arguments

vars == <<mounted, selectedModelId, engine, engineStatus, loadProgress,
          isLoadingModel, messages, userInput, isStreaming, conversationRef,
          loads, gens, lastOp>>

\* ------------------------------------------------------------- helpers
Status(kind, pct, text) == [kind |-> kind, pct |-> pct, text |-> text]

\* String.prototype.trim over the model's alphabet
RECURSIVE TrimLeft(_)
TrimLeft(s) == IF s # << >> /\ Head(s) = " " THEN TrimLeft(Tail(s)) ELSE s
RECURSIVE TrimRight(_)
TrimRight(s) ==
  IF s # << >> /\ s[Len(s)] = " " THEN TrimRight(SubSeq(s, 1, Len(s) - 1)) ELSE s
\* userInput used without .trim()
Trim_Missing(s) == s
Trim(s) == TrimRight(TrimLeft(s))

\* formatProgress, lines 24-32: the formatted text as (percentage, text);
\* kind "empty" is the empty string
formatProgress(p) ==
  LET percentage == IF p.progress # 0 THEN p.progress * 10 ELSE Undefined
  IN  IF percentage = Undefined
      THEN IF p.text = "" THEN Status("empty", Undefined, "")
                          ELSE Status("progress", Undefined, p.text)
      ELSE Status("progress", percentage, p.text)

\* `${'⚠️'} ${message}`, line 179
ErrorMarker(reason) == <<"!", " ">> \o reason

UserMessage(text) == [role |-> "user", content |-> text]
AssistantMessage(text) == [role |-> "assistant", content |-> text]

\* the updater pushing a new entry instead of replacing the last one
OverwriteLast_Appends(prev, text) == Append(prev, AssistantMessage(text))

\* the setMessages updater of lines 151-158, 163-170 and 173-183
OverwriteLast(prev, text) ==
  IF Len(prev) > 0 /\ prev[Len(prev)].role = "assistant"
  THEN [prev EXCEPT ![Len(prev)] = AssistantMessage(text)]
  ELSE prev

\* DEFAULT_RULES, lines 20-22, and texts of the rules <textarea>
DEFAULT_RULES == <<"R">>
SystemRules == {<<" ">>, <<" ", "r">>}
\* activeSystemPrompt, lines 118-121
activeSystemPrompt(systemRules) ==
  IF Len(Trim(systemRules)) > 0 THEN Trim(systemRules) ELSE DEFAULT_RULES
\* the `messages` argument of engine.chat.completions.create, lines 139-142
RequestMessages(systemRules, history) ==
  <<[role |-> "system", content |-> activeSystemPrompt(systemRules)]>> \o history

\* a handleSend call in progress: where it awaits (phase), its local
\* `aggregate` and `history`, the `engine` it captured; and, for stating the
\* properties, the userInput and messages it started from and whether
\* handleReset or init() has run since
Gen(phase, aggregate, history, eng, input, before) ==
  [phase |-> phase, aggregate |-> aggregate, history |-> history, engine |-> eng,
   input |-> input, before |-> before, reset |-> FALSE, switched |-> FALSE]
NoGen == Gen("none", << >>, << >>, 0, << >>, << >>)

\* what ran last: the handler, the handleSend call it belongs to (as it was
\* before the step) and the text it was given
Op(name, gen, text) == [op |-> name, gen |-> gen, text |-> text, load |-> 0]
\* the same for a continuation of the k-th run of init()
LoadOp(name, k) == [op |-> name, gen |-> NoGen, text |-> << >>, load |-> k]

\* the sequence without its g-th element
Remove(seq, g) == SubSeq(seq, 1, g - 1) \o SubSeq(seq, g + 1, Len(seq))

\* ------------------------------------------------------------- Init
Init ==
  /\ mounted = FALSE
  /\ selectedModelId = llamaModels[1]
  /\ engine = 0
  /\ engineStatus = Status("initial", Undefined, "")
  /\ loadProgress = << >>
  /\ isLoadingModel = FALSE
  /\ messages = << >>
  /\ userInput = << >>
  /\ isStreaming = FALSE
  /\ conversationRef = << >>
  /\ loads = << >>
  /\ gens = << >>
  /\ lastOp = Op("render", NoGen, << >>)

\* notes on the handleSend calls in flight that handleReset / init() has run
MarkReset(gs) == [g \in 1..Len(gs) |-> [gs[g] EXCEPT !.reset = TRUE]]
MarkSwitched(gs) == [g \in 1..Len(gs) |-> [gs[g] EXCEPT !.switched = TRUE]]

\* init() without the setMessages([]) of line 75
EffectInit_KeepsMessages(id) ==
  /\ isLoadingModel' = TRUE
  /\ engine' = 0
  /\ UNCHANGED <<messages, conversationRef>>
  /\ engineStatus' = Status("loading", Undefined, id)
  /\ loadProgress' = << >>
  /\ loads' = Append([k \in 1..Len(loads) |-> [loads[k] EXCEPT !.cancelled = TRUE]],
                     [model |-> id, cancelled |-> FALSE, settled |-> FALSE])
  /\ gens' = MarkSwitched(gens)

\* the body of init(), lines 72-77, run by the effect of lines 69-112 after
\* the cleanup of the previous run (lines 109-111) has set its `cancelled`;
EffectInit(id) ==
  /\ isLoadingModel' = TRUE
  /\ engine' = 0
  /\ messages' = << >>
  /\ conversationRef' = << >>
  /\ engineStatus' = Status("loading", Undefined, id)
  /\ loadProgress' = << >>
  /\ loads' = Append([k \in 1..Len(loads) |-> [loads[k] EXCEPT !.cancelled = TRUE]],
                     [model |-> id, cancelled |-> FALSE, settled |-> FALSE])
  /\ gens' = MarkSwitched(gens)

\* first commit: the effect of lines 69-112 runs for the initial selectedModelId
Mount ==
  /\ ~mounted
  /\ mounted' = TRUE
  /\ selectedModelId # ""
  /\ EffectInit(selectedModelId)
  /\ lastOp' = Op("mount", NoGen, << >>)
  /\ UNCHANGED <<selectedModelId, userInput, isStreaming>>

\* onChange of the model <select>, line 226.  Setting the id it already has
\* changes no dependency of the effect, so init() does not run.
selectModel(id) ==
  /\ mounted
  /\ IF id = selectedModelId
     THEN /\ lastOp' = Op("selectSame", NoGen, << >>)
          /\ UNCHANGED <<mounted, selectedModelId, engine, engineStatus,
                         loadProgress, isLoadingModel, messages, userInput,
                         isStreaming, conversationRef, loads, gens>>
     ELSE /\ Len(loads) < MaxLoads
          /\ selectedModelId' = id
          /\ EffectInit(id)
          /\ lastOp' = Op("select", NoGen, << >>)
          /\ UNCHANGED <<mounted, userInput, isStreaming>>

\* LoadProgress without the `if (cancelled) return` of line 87
LoadProgress_NoCancelCheck(k, p) ==
  /\ ~loads[k].settled
  /\ loadProgress' = <<p>>
  /\ engineStatus' = IF formatProgress(p).kind = "empty"
                     THEN Status("preparing", Undefined, "")
                     ELSE formatProgress(p)
  /\ lastOp' = LoadOp("progress", k)
  /\ UNCHANGED <<mounted, selectedModelId, engine, isLoadingModel, messages,
                 userInput, isStreaming, conversationRef, loads, gens>>

\* initProgressCallback, lines 86-90
LoadProgress(k, p) ==
  /\ ~loads[k].settled
  /\ IF loads[k].cancelled
     THEN UNCHANGED <<loadProgress, engineStatus>>
     ELSE /\ loadProgress' = <<p>>
          /\ engineStatus' = IF formatProgress(p).kind = "empty"
                             THEN Status("preparing", Undefined, "")
                             ELSE formatProgress(p)
  /\ lastOp' = LoadOp("progress", k)
  /\ UNCHANGED <<mounted, selectedModelId, engine, isLoadingModel, messages,
                 userInput, isStreaming, conversationRef, loads, gens>>

\* LoadSuccess without the `if (cancelled) return` of line 92
LoadSuccess_NoCancelCheck(k) ==
  /\ ~loads[k].settled
  /\ loads' = [loads EXCEPT ![k].settled = TRUE]
  /\ engine' = k
  /\ engineStatus' = Status("ready", Undefined, "")
  /\ isLoadingModel' = IF loads[k].cancelled THEN isLoadingModel ELSE FALSE
  /\ lastOp' = LoadOp("loaded", k)
  /\ UNCHANGED <<mounted, selectedModelId, loadProgress, messages, userInput,
                 isStreaming, conversationRef, gens>>

\* LoadSuccess whose finally clears the flag without testing `cancelled`
LoadSuccess_StaleClearsLoading(k) ==
  /\ ~loads[k].settled
  /\ loads' = [loads EXCEPT ![k].settled = TRUE]
  /\ IF loads[k].cancelled
     THEN UNCHANGED <<engine, engineStatus>>
     ELSE /\ engine' = k
          /\ engineStatus' = Status("ready", Undefined, "")
  /\ isLoadingModel' = FALSE
  /\ lastOp' = LoadOp("loaded", k)
  /\ UNCHANGED <<mounted, selectedModelId, loadProgress, messages, userInput,
                 isStreaming, conversationRef, gens>>

\* CreateMLCEngine resolves: lines 92-96 and the finally of lines 104-106
LoadSuccess(k) ==
  /\ ~loads[k].settled
  /\ loads' = [loads EXCEPT ![k].settled = TRUE]
  /\ IF loads[k].cancelled
     THEN UNCHANGED <<engine, engineStatus, isLoadingModel>>
     ELSE /\ engine' = k
          /\ engineStatus' = Status("ready", Undefined, "")
          /\ isLoadingModel' = FALSE
  /\ lastOp' = LoadOp("loaded", k)
  /\ UNCHANGED <<mounted, selectedModelId, loadProgress, messages, userInput,
                 isStreaming, conversationRef, gens>>

\* LoadFailure without the setIsLoadingModel(false) of the finally block
LoadFailure_KeepsLoading(k, reason) ==
  /\ ~loads[k].settled
  /\ loads' = [loads EXCEPT ![k].settled = TRUE]
  /\ IF loads[k].cancelled
     THEN UNCHANGED engineStatus
     ELSE engineStatus' = Status("failed", Undefined, reason)
  /\ lastOp' = [LoadOp("loadFailed", k) EXCEPT !.text = <<reason>>]
  /\ UNCHANGED <<mounted, selectedModelId, engine, loadProgress, messages,
                 userInput, isStreaming, conversationRef, gens, isLoadingModel>>

\* CreateMLCEngine rejects: lines 97-103 and the finally of lines 104-106
LoadFailure(k, reason) ==
  /\ ~loads[k].settled
  /\ loads' = [loads EXCEPT ![k].settled = TRUE]
  /\ IF loads[k].cancelled
     THEN UNCHANGED <<engineStatus, isLoadingModel>>
     ELSE /\ engineStatus' = Status("failed", Undefined, reason)
          /\ isLoadingModel' = FALSE
  /\ lastOp' = [LoadOp("loadFailed", k) EXCEPT !.text = <<reason>>]
  /\ UNCHANGED <<mounted, selectedModelId, engine, loadProgress, messages,
                 userInput, isStreaming, conversationRef, gens>>

\* canSend, lines 123-124
canSend ==
  engine # 0 /\ ~isStreaming /\ Len(Trim(userInput)) > 0 /\ ~isLoadingModel

\* the prompt <textarea> accepts typing unless disabled, line 387
InputEnabled == ~(engine = 0 \/ isStreaming \/ isLoadingModel)

\* onChange of the prompt <textarea>, line 375
TypeInput(text) ==
  /\ mounted
  /\ InputEnabled
  /\ userInput' = text
  /\ lastOp' = Op("type", NoGen, text)
  /\ UNCHANGED <<mounted, selectedModelId, engine, engineStatus, loadProgress,
                 isLoadingModel, messages, isStreaming, conversationRef, loads, gens>>

\* handleSend whose `history` is [userMessage] alone instead of
\* [...conversationRef.current, userMessage]
handleSend_DropsHistory ==
  IF engine = 0 \/ Trim(userInput) = << >>
  THEN /\ lastOp' = Op("sendReturned", NoGen, userInput)
       /\ UNCHANGED <<messages, userInput, isStreaming, conversationRef, gens>>
  ELSE LET prompt == Trim(userInput)
           history == <<UserMessage(prompt)>>
       IN  /\ Len(conversationRef) < 2 * MaxTurns
           /\ Len(gens) < MaxInFlight
           /\ userInput' = << >>
           /\ messages' = Append(history, AssistantMessage(<< >>))
           /\ conversationRef' = messages'
           /\ isStreaming' = TRUE
           /\ gens' = Append(gens, Gen("setup", << >>, history, engine,
                                       userInput, messages))
           /\ lastOp' = Op("send", NoGen, userInput)

\* handleSend that shows `history` without the assistant placeholder
handleSend_NoPlaceholder ==
  IF engine = 0 \/ Trim(userInput) = << >>
  THEN /\ lastOp' = Op("sendReturned", NoGen, userInput)
       /\ UNCHANGED <<messages, userInput, isStreaming, conversationRef, gens>>
  ELSE LET prompt == Trim(userInput)
           history == Append(conversationRef, UserMessage(prompt))
       IN  /\ Len(conversationRef) < 2 * MaxTurns
           /\ Len(gens) < MaxInFlight
           /\ userInput' = << >>
           /\ messages' = history
           /\ conversationRef' = messages'
           /\ isStreaming' = TRUE
           /\ gens' = Append(gens, Gen("setup", << >>, history, engine,
                                       userInput, messages))
           /\ lastOp' = Op("send", NoGen, userInput)

\* handleSend without the setIsStreaming(true) of line 135
handleSend_NoStreamingFlag ==
  IF engine = 0 \/ Trim(userInput) = << >>
  THEN /\ lastOp' = Op("sendReturned", NoGen, userInput)
       /\ UNCHANGED <<messages, userInput, isStreaming, conversationRef, gens>>
  ELSE LET prompt == Trim(userInput)
           history == Append(conversationRef, UserMessage(prompt))
       IN  /\ Len(conversationRef) < 2 * MaxTurns
           /\ Len(gens) < MaxInFlight
           /\ userInput' = << >>
           /\ messages' = Append(history, AssistantMessage(<< >>))
           /\ conversationRef' = messages'
           /\ UNCHANGED isStreaming
           /\ gens' = Append(gens, Gen("setup", << >>, history, engine,
                                       userInput, messages))
           /\ lastOp' = Op("send", NoGen, userInput)

\* handleSend up to its first await, lines 126-135 (and the create call of
\* lines 137-145, whose messages argument is `history`)
handleSend ==
  IF engine = 0 \/ Trim(userInput) = << >>
  THEN /\ lastOp' = Op("sendReturned", NoGen, userInput)
       /\ UNCHANGED <<messages, userInput, isStreaming, conversationRef, gens>>
  ELSE LET prompt == Trim(userInput)
           history == Append(conversationRef, UserMessage(prompt))
       IN  /\ Len(conversationRef) < 2 * MaxTurns
           /\ Len(gens) < MaxInFlight
           /\ userInput' = << >>
           /\ messages' = Append(history, AssistantMessage(<< >>))
           /\ conversationRef' = messages'
           /\ isStreaming' = TRUE
           /\ gens' = Append(gens, Gen("setup", << >>, history, engine,
                                       userInput, messages))
           /\ lastOp' = Op("send", NoGen, userInput)

\* a submit: the Send button (lines 390-393, disabled unless canSend) or the
\* Enter key (lines 376-381, which tests canSend)
submit ==
  /\ mounted
  /\ IF canSend
     THEN handleSend
     ELSE /\ lastOp' = Op("submitIgnored", NoGen, userInput)
          /\ UNCHANGED <<messages, userInput, isStreaming, conversationRef, gens>>
  /\ UNCHANGED <<mounted, selectedModelId, engine, engineStatus, loadProgress,
                 isLoadingModel, loads>>

\* engine.chat.completions.create resolves, lines 137-147
StreamOpened(g) ==
  /\ gens[g].phase = "setup"
  /\ gens' = [gens EXCEPT ![g].phase = "stream"]
  /\ lastOp' = Op("streamOpened", gens[g], << >>)
  /\ UNCHANGED <<mounted, selectedModelId, engine, engineStatus, loadProgress,
                 isLoadingModel, messages, userInput, isStreaming,
                 conversationRef, loads>>

\* StreamChunk with `aggregate = delta` in place of `aggregate += delta`
StreamChunk_WritesDelta(g, chunk) ==
  /\ gens[g].phase = "stream"
  /\ Len(gens[g].aggregate) + Len(chunk.content) <= MaxAggregate
  /\ LET delta == IF chunk.hasContent THEN chunk.content ELSE << >>
         snapshot == delta
     IN  /\ gens' = [gens EXCEPT ![g].aggregate = gens[g].aggregate \o delta]
         /\ messages' = OverwriteLast(messages, snapshot)
         /\ lastOp' = Op("chunk", gens[g], delta)
  /\ conversationRef' = messages'
  /\ UNCHANGED <<mounted, selectedModelId, engine, engineStatus, loadProgress,
                 isLoadingModel, userInput, isStreaming, loads>>

\* one iteration of the for await loop, lines 148-159
StreamChunk(g, chunk) ==
  /\ gens[g].phase = "stream"
  /\ Len(gens[g].aggregate) + Len(chunk.content) <= MaxAggregate
  /\ LET delta == IF chunk.hasContent THEN chunk.content ELSE << >>
         snapshot == gens[g].aggregate \o delta
     IN  /\ gens' = [gens EXCEPT ![g].aggregate = snapshot]
         /\ messages' = OverwriteLast(messages, snapshot)
         /\ lastOp' = Op("chunk", gens[g], delta)
  /\ conversationRef' = messages'
  /\ UNCHANGED <<mounted, selectedModelId, engine, engineStatus, loadProgress,
                 isLoadingModel, userInput, isStreaming, loads>>

\* the stream ends: the loop exits and engine.getMessage() is awaited, line 161
StreamEnd(g) ==
  /\ gens[g].phase = "stream"
  /\ gens' = [gens EXCEPT ![g].phase = "final"]
  /\ lastOp' = Op("streamEnd", gens[g], << >>)
  /\ UNCHANGED <<mounted, selectedModelId, engine, engineStatus, loadProgress,
                 isLoadingModel, messages, userInput, isStreaming,
                 conversationRef, loads>>

\* FinalMessage without the `finalReply.length > 0` test of line 162
FinalMessage_AlwaysOverwrites(g, finalReply) ==
  /\ gens[g].phase = "final"
  /\ gens' = Remove(gens, g)
  /\ messages' = OverwriteLast(messages, finalReply)
  /\ conversationRef' = messages'
  /\ isStreaming' = FALSE
  /\ lastOp' = Op("final", gens[g], finalReply)
  /\ UNCHANGED <<mounted, selectedModelId, engine, engineStatus, loadProgress,
                 isLoadingModel, userInput, loads>>

\* engine.getMessage() resolves: lines 161-171 and the finally of lines 184-186
FinalMessage(g, finalReply) ==
  /\ gens[g].phase = "final"
  /\ gens' = Remove(gens, g)
  /\ messages' = IF Len(finalReply) > 0
                 THEN OverwriteLast(messages, finalReply) ELSE messages
  /\ conversationRef' = messages'
  /\ isStreaming' = FALSE
  /\ lastOp' = Op("final", gens[g], finalReply)
  /\ UNCHANGED <<mounted, selectedModelId, engine, engineStatus, loadProgress,
                 isLoadingModel, userInput, loads>>

\* GenerationError without the setIsStreaming(false) of the finally block
GenerationError_KeepsStreaming(g, reason) ==
  /\ gens[g].phase \in {"setup", "stream", "final"}
  /\ gens' = Remove(gens, g)
  /\ messages' = OverwriteLast(messages, ErrorMarker(reason))
  /\ conversationRef' = messages'
  /\ UNCHANGED isStreaming
  /\ lastOp' = Op("error", gens[g], reason)
  /\ UNCHANGED <<mounted, selectedModelId, engine, engineStatus, loadProgress,
                 isLoadingModel, userInput, loads>>

\* create, the stream or getMessage rejects: the catch of lines 172-183 and
\* the finally of lines 184-186
GenerationError(g, reason) ==
  /\ gens[g].phase \in {"setup", "stream", "final"}
  /\ gens' = Remove(gens, g)
  /\ messages' = OverwriteLast(messages, ErrorMarker(reason))
  /\ conversationRef' = messages'
  /\ isStreaming' = FALSE
  /\ lastOp' = Op("error", gens[g], reason)
  /\ UNCHANGED <<mounted, selectedModelId, engine, engineStatus, loadProgress,
                 isLoadingModel, userInput, loads>>

\* handleReset that also calls setIsStreaming(false)
handleReset_ClearsStreaming ==
  /\ mounted
  /\ messages' = << >>
  /\ conversationRef' = << >>
  /\ engineStatus' = Status("cleared", Undefined, "")
  /\ isStreaming' = FALSE
  /\ gens' = MarkReset(gens)
  /\ lastOp' = Op("reset", NoGen, << >>)
  /\ UNCHANGED <<mounted, selectedModelId, engine, loadProgress, isLoadingModel,
                 userInput, loads>>

\* handleReset that removes the last turn instead of the whole conversation
handleReset_DropsLastTurn ==
  /\ mounted
  /\ messages' = IF Len(messages) > 2
                 THEN SubSeq(messages, 1, Len(messages) - 2) ELSE << >>
  /\ conversationRef' = messages'
  /\ engineStatus' = Status("cleared", Undefined, "")
  /\ gens' = MarkReset(gens)
  /\ lastOp' = Op("reset", NoGen, << >>)
  /\ UNCHANGED <<mounted, selectedModelId, engine, loadProgress, isLoadingModel,
                 userInput, isStreaming, loads>>

\* handleReset after which the effect of lines 65-67 has not refreshed
\* conversationRef.current
handleReset_StaleRef ==
  /\ mounted
  /\ messages' = << >>
  /\ UNCHANGED conversationRef
  /\ engineStatus' = Status("cleared", Undefined, "")
  /\ gens' = MarkReset(gens)
  /\ lastOp' = Op("reset", NoGen, << >>)
  /\ UNCHANGED <<mounted, selectedModelId, engine, loadProgress, isLoadingModel,
                 userInput, isStreaming, loads>>

\* handleReset, lines 189-194
handleReset ==
  /\ mounted
  /\ messages' = << >>
  /\ conversationRef' = << >>
  /\ engineStatus' = Status("cleared", Undefined, "")
  /\ gens' = MarkReset(gens)
  /\ lastOp' = Op("reset", NoGen, << >>)
  /\ UNCHANGED <<mounted, selectedModelId, engine, loadProgress, isLoadingModel,
                 userInput, isStreaming, loads>>

Next ==
  \/ Mount
  \/ \E id \in ModelIds : selectModel(id)
  \/ \E k \in 1..Len(loads), p \in ProgressReports : LoadProgress(k, p)
  \/ \E k \in 1..Len(loads) : LoadSuccess(k)
  \/ \E k \in 1..Len(loads), r \in LoadErrors : LoadFailure(k, r)
  \/ \E text \in Inputs : TypeInput(text)
  \/ submit
  \/ \E g \in 1..Len(gens) : StreamOpened(g)
  \/ \E g \in 1..Len(gens), c \in Chunks : StreamChunk(g, c)
  \/ \E g \in 1..Len(gens) : StreamEnd(g)
  \/ \E g \in 1..Len(gens), t \in FinalTexts : FinalMessage(g, t)
  \/ \E g \in 1..Len(gens), r \in GenErrors : GenerationError(g, r)
  \/ handleReset

Spec == Init /\ [][Next]_vars

\* a step that moves a handleSend call past an await: create settles, the
\* stream ends or throws, getMessage settles
GenAdvance ==
  \E g \in 1..Len(gens) :
    \/ StreamOpened(g)
    \/ StreamEnd(g)
    \/ \E t \in FinalTexts : FinalMessage(g, t)
    \/ \E r \in GenErrors : GenerationError(g, r)

\* the behaviours in which every awaited promise of a generation settles
\* and every stream ends or fails
FairSpec == Spec /\ WF_vars(GenAdvance)

\* ------------------------------------------------------------- properties
\* the operations of a handleSend call after its first await
GenOps == {"streamOpened", "chunk", "streamEnd", "final", "error"}
\* the outcomes of a submit
SubmitOps == {"send", "sendReturned", "submitIgnored"}
\* the load started by the most recent run of init()
LatestLoad == Len(loads)
\* a text that is empty after trimming
IsBlank(text) == \A i \in 1..Len(text) : text[i] = " "

\* C1: whatever the order of model selections and of the settling of their
\* loads, the active handle is null or the handle made by the load that the
\* most recent selection started; the handle of a superseded load is never
\* exposed.
C1_ActiveHandleIsLatest ==
  engine = 0 \/ (engine = LatestLoad /\ loads[engine].settled)

\* a superseded load has just resolved with its handle, after a newer selection
C1_Witness ==
  /\ lastOp.op = "loaded"
  /\ lastOp.load < LatestLoad
  /\ loads[lastOp.load].cancelled

\* C2: a model selection made during a generation empties the conversation;
\* nothing that generation delivers afterwards changes it; it is empty when
\* the selected model becomes ready; and only an accepted submit makes an
\* empty conversation non-empty.
C2_StaleGenerationAfterSelect ==
  /\ [](lastOp.op = "loaded" /\ engine = lastOp.load => messages = << >>)
  /\ [][ /\ (lastOp'.op = "select" => messages' = << >>)
         /\ (lastOp'.op \in GenOps /\ lastOp'.gen.switched => messages' = messages)
         /\ (messages = << >> /\ messages' # << >> => lastOp'.op = "send")
       ]_vars

\* the final text of a generation arrives after a model selection that
\* happened while its stream was running
C2_Witness ==
  /\ lastOp.op = "final"
  /\ lastOp.text # << >>
  /\ lastOp.gen.switched
  /\ lastOp.gen.aggregate # << >>
  /\ messages = << >>

\* C3: once handleReset has run during a generation, no later chunk, final
\* text or error of that generation changes the conversation.
C3_StaleGenerationAfterReset ==
  [][lastOp'.op \in GenOps /\ lastOp'.gen.reset => messages' = messages]_vars

\* the final text of a generation arrives after a reset that happened while
\* its stream was running
C3_Witness ==
  /\ lastOp.op = "final"
  /\ lastOp.text # << >>
  /\ lastOp.gen.reset
  /\ ~lastOp.gen.switched
  /\ lastOp.gen.aggregate # << >>

\* C4: a submit made while isStreaming is true changes nothing (conversation,
\* flag, pending input, generations in flight), and there is never more than
\* one generation in flight.
C4_SubmitWhileStreaming ==
  /\ [](Len(gens) <= 1)
  /\ [][isStreaming /\ lastOp'.op \in SubmitOps =>
          UNCHANGED <<messages, isStreaming, userInput, gens, conversationRef,
                      engine, engineStatus>>]_vars

\* a submit has just been made during a generation
C4_Witness ==
  /\ lastOp.op \in SubmitOps
  /\ isStreaming
  /\ Len(gens) = 1

\* the handleSend call of the last operation ran with no handleReset and no
\* init() since its submit
Undisturbed(gen) == ~gen.reset /\ ~gen.switched
\* the last entry of the conversation is the assistant entry with this text
TrailingAssistantIs(text) ==
  Len(messages) > 0 /\ messages[Len(messages)] = AssistantMessage(text)

\* C5 as stated: after every generation that completes, the trailing
\* assistant message equals the final text given by getMessage, whatever the
\* final text and the streamed aggregate.  (Read for the generations that
\* still own the conversation: one abandoned by a reset or a model selection
\* writes nothing.)
C5_Original ==
  lastOp.op = "final" /\ Undisturbed(lastOp.gen) => TrailingAssistantIs(lastOp.text)

\* C5 amended: after a generation that completes with no reset and no model
\* selection since its submit, the trailing assistant message is the final
\* text when that text is non-empty, and the streamed aggregate otherwise.
C5_FinalTextOrAggregate ==
  lastOp.op = "final" /\ Undisturbed(lastOp.gen) =>
    TrailingAssistantIs(IF lastOp.text # << >> THEN lastOp.text
                        ELSE lastOp.gen.aggregate)

\* a non-empty final text has just replaced a different streamed aggregate
C5_Witness ==
  /\ lastOp.op = "final"
  /\ Undisturbed(lastOp.gen)
  /\ lastOp.text # << >>
  /\ lastOp.gen.aggregate # << >>
  /\ lastOp.gen.aggregate # lastOp.text
  /\ TrailingAssistantIs(lastOp.text)

\* C6 as stated: an undisturbed generation leaves the conversation equal to
\* the one before the submit followed by {user, trimmed prompt} and
\* {assistant, final text}.
C6_Original ==
  lastOp.op = "final" /\ Undisturbed(lastOp.gen) =>
    messages = lastOp.gen.before \o
               <<UserMessage(Trim(lastOp.gen.input)), AssistantMessage(lastOp.text)>>

\* C6 amended: the same, the assistant entry holding the final text when it
\* is non-empty and the streamed aggregate otherwise.
C6_RoundTrip ==
  lastOp.op = "final" /\ Undisturbed(lastOp.gen) =>
    messages = lastOp.gen.before \o
               <<UserMessage(Trim(lastOp.gen.input)),
                 AssistantMessage(IF lastOp.text # << >> THEN lastOp.text
                                  ELSE lastOp.gen.aggregate)>>

\* a second turn has just completed on a conversation that held a first one
C6_Witness ==
  /\ lastOp.op = "final"
  /\ Undisturbed(lastOp.gen)
  /\ Len(lastOp.gen.before) = 2
  /\ lastOp.gen.input = <<" ", "a", " ">>
  /\ Len(messages) = 4
  /\ messages[3] = UserMessage(<<"a">>)

\* C7 as stated: immediately after handleReset, isStreaming is false.
C7_Original ==
  lastOp.op = "reset" => ~isStreaming

\* C7 amended: handleReset leaves isStreaming as it was; immediately after
\* it, isStreaming is true exactly when a generation is still in flight.
C7_ResetKeepsStreaming ==
  /\ [](lastOp.op = "reset" => (isStreaming <=> Len(gens) > 0))
  /\ [][lastOp'.op = "reset" => isStreaming' = isStreaming]_vars

\* handleReset has just run during a generation
C7_Witness ==
  /\ lastOp.op = "reset"
  /\ isStreaming
  /\ Len(gens) = 1
  /\ gens[1].reset

\* C8 as stated: while isStreaming is true the conversation is non-empty and
\* its last element is the assistant entry.
C8_Original ==
  isStreaming => Len(messages) > 0 /\ messages[Len(messages)].role = "assistant"

\* C8 amended: while isStreaming is true there is one generation in flight;
\* if no reset or model selection happened since its submit, the conversation
\* is the history of that submit, unchanged, followed by the one assistant
\* entry holding the streamed aggregate; otherwise the conversation is empty.
C8_TrailingEntryWhileStreaming ==
  isStreaming =>
    /\ Len(gens) = 1
    /\ IF Undisturbed(gens[1])
       THEN messages = Append(gens[1].history, AssistantMessage(gens[1].aggregate))
       ELSE messages = << >>

\* a second turn is streaming and has delivered text
C8_Witness ==
  /\ isStreaming
  /\ Len(gens) = 1
  /\ Undisturbed(gens[1])
  /\ gens[1].aggregate # << >>
  /\ Len(messages) = 4

\* C9: a submit whose prompt is blank, or made while engine is null, changes
\* no state: conversation, isStreaming, pending input, generations in flight,
\* status and handle are as before.
C9_InvalidSubmitIsNoOp ==
  [][lastOp'.op \in SubmitOps /\ (IsBlank(userInput) \/ engine = 0) =>
       UNCHANGED <<messages, isStreaming, userInput, gens, conversationRef,
                   engine, engineStatus, loadProgress, isLoadingModel>>]_vars

\* a submit with a non-blank pending input has just been made while engine
\* is null
C9_Witness ==
  /\ lastOp.op \in SubmitOps
  /\ engine = 0
  /\ ~IsBlank(userInput)
  /\ lastOp.text = userInput

\* C10: when a generation fails with no reset or model selection since its
\* submit, the conversation is the one before the submit, the user message
\* of the turn and an assistant entry holding the error marker with the
\* reason; isStreaming is false and the prompt box and Send are usable.
C10_FailureLeavesMarker ==
  lastOp.op = "error" /\ Undisturbed(lastOp.gen) =>
    /\ messages = lastOp.gen.before \o
                  <<UserMessage(Trim(lastOp.gen.input)),
                    AssistantMessage(<<"!", " ">> \o lastOp.text)>>
    /\ ~isStreaming
    /\ engine # 0
    /\ ~isLoadingModel

\* after a failed turn, whose marker is in the conversation, the next submit
\* has just been accepted
C10_Witness ==
  /\ lastOp.op = "send"
  /\ Len(messages) = 4
  /\ messages[1].role = "user"
  /\ messages[2] = AssistantMessage(<<"!", " ", "e">>)
  /\ isStreaming

\* C11: when the load started by the most recent model selection fails, the
\* status is Failed with the failure reason, the handle is null and the
\* loading flag is cleared.
C11_LatestLoadFailure ==
  lastOp.op = "loadFailed" /\ lastOp.load = LatestLoad =>
    /\ engineStatus.kind = "failed"
    /\ <<engineStatus.text>> = lastOp.text
    /\ engine = 0
    /\ ~isLoadingModel

\* the load of the second selection has just failed
C11_Witness ==
  /\ lastOp.op = "loadFailed"
  /\ lastOp.load = LatestLoad
  /\ LatestLoad = 2
  /\ engineStatus = Status("failed", Undefined, "net")

\* C12: after the load of a model has failed, selecting a model again, the
\* same id included, starts a fresh load: the status becomes Loading, the
\* loading flag is set and a new load is begun.
C12_RetryStartsFreshLoad ==
  [][engineStatus.kind = "failed" /\ lastOp'.op \in {"select", "selectSame"} =>
       /\ engineStatus'.kind = "loading"
       /\ isLoadingModel'
       /\ Len(loads') = Len(loads) + 1
       /\ ~loads'[Len(loads')].settled]_vars

\* the continuations of a run of init()
LoadOps == {"progress", "loaded", "loadFailed"}

\* C13: a progress report, the success or the failure of a superseded load,
\* arriving after a newer model selection, leaves status text, load
\* progress, loading flag and handle as they were.
C13_SupersededLoadEvents ==
  [][lastOp'.op \in LoadOps /\ lastOp'.load < LatestLoad =>
       UNCHANGED <<engineStatus, loadProgress, isLoadingModel, engine>>]_vars

\* a progress report of the first load has just arrived while the second
\* load, which has reported its own progress, is still running
C13_Witness ==
  /\ lastOp.op = "progress"
  /\ lastOp.load = 1
  /\ LatestLoad = 2
  /\ ~loads[2].settled
  /\ isLoadingModel
  /\ loadProgress = <<[progress |-> 5, text |-> "fetch"]>>
  /\ engineStatus = Status("progress", 50, "fetch")

\* C14: handleReset can run in every state of the mounted component and
\* leaves the conversation empty; run again at once it changes nothing: the
\* conversation is empty, handle, flags, status and pending input are the
\* same.
C14_ResetIdempotent ==
  /\ [](mounted => ENABLED handleReset)
  /\ [](lastOp.op = "reset" => messages = << >> /\ conversationRef = << >>)
  /\ [][lastOp.op = "reset" /\ lastOp'.op = "reset" =>
          UNCHANGED <<messages, conversationRef, engine, engineStatus,
                      loadProgress, isLoadingModel, isStreaming, userInput,
                      selectedModelId, gens, loads>>]_vars

\* handleReset has just run on a loaded model with a prompt pending
C14_Witness ==
  /\ lastOp.op = "reset"
  /\ messages = << >>
  /\ engine # 0
  /\ ~isStreaming
  /\ userInput = <<" ", "a", " ">>
  /\ engineStatus = Status("cleared", Undefined, "")

\* the content of the last entry of a conversation
LastContent(conv) == conv[Len(conv)].content

\* C15: within one generation each chunk is applied to the trailing assistant
\* entry as the content applied before it extended by the new chunk, in the
\* order received (the content applied so far is the concatenation of the
\* chunks received so far); chunks are taken only while the stream is open,
\* and the final text is applied only after the stream has ended, after
\* which the call takes no further chunk.
C15_ChunkOrder ==
  /\ [](lastOp.op = "chunk" => lastOp.gen.phase = "stream")
  /\ [](lastOp.op = "final" => lastOp.gen.phase = "final" /\ lastOp.gen \notin
                                  {gens[g] : g \in 1..Len(gens)})
  /\ [][lastOp'.op = "chunk" /\ Undisturbed(lastOp'.gen) =>
          /\ Len(messages') = Len(messages)
          /\ LastContent(messages) = lastOp'.gen.aggregate
          /\ LastContent(messages') = LastContent(messages) \o lastOp'.text
          /\ SubSeq(messages', 1, Len(messages) - 1) =
               SubSeq(messages, 1, Len(messages) - 1)]_vars

\* a second chunk with text has just been applied on top of the first
C15_Witness ==
  /\ lastOp.op = "chunk"
  /\ Undisturbed(lastOp.gen)
  /\ lastOp.gen.aggregate = <<"b">>
  /\ lastOp.text = <<"b">>
  /\ LastContent(messages) = <<"b", "b">>

\* C16: if every stream and every final-message fetch ends or fails, each
\* accepted submit (which sets isStreaming) is eventually followed by
\* isStreaming = false, also when a reset or a model selection happened
\* during the generation.
C16_StreamingEnds ==
  isStreaming ~> ~isStreaming

\* a generation that was reset away and then saw a model selection has just
\* finished, and isStreaming is false again
C16_Witness ==
  /\ lastOp.op \in {"final", "error"}
  /\ lastOp.gen.reset
  /\ lastOp.gen.switched
  /\ ~isStreaming
  /\ Len(gens) = 0

\* C17: when the load of the most recent model selection settles, the
\* loading flag is false and the status is Ready with that load's handle
\* published, or Failed with a null handle; and in every state the loading
\* flag is set exactly while that load has not settled, whatever earlier
\* loads do and in whatever order they settle.
C17_LatestLoadSettles ==
  /\ lastOp.op \in {"loaded", "loadFailed"} /\ lastOp.load = LatestLoad =>
       /\ ~isLoadingModel
       /\ \/ lastOp.op = "loaded" /\ engineStatus.kind = "ready"
             /\ engine = LatestLoad
          \/ lastOp.op = "loadFailed" /\ engineStatus.kind = "failed"
             /\ engine = 0
  /\ mounted => (isLoadingModel <=> ~loads[LatestLoad].settled)

\* the second load has just resolved after the first, superseded one settled
C17_Witness ==
  /\ lastOp.op = "loaded"
  /\ lastOp.load = 2
  /\ LatestLoad = 2
  /\ loads[1].settled
  /\ engine = 2
  /\ engineStatus.kind = "ready"

\* C18: in every state isStreaming is true exactly when one handleSend call
\* is in flight, and never more than one is; handleReset and a model
\* selection leave the flag as it was; the flag goes from true to false
\* only in the step that ends the one call in flight.
C18_StreamingIffInFlight ==
  /\ [](Len(gens) <= 1 /\ (isStreaming <=> Len(gens) = 1))
  /\ [][ /\ (lastOp'.op \in {"reset", "select", "selectSame"} =>
                isStreaming' = isStreaming)
         /\ (isStreaming /\ ~isStreaming' =>
                lastOp'.op \in {"final", "error"} /\ gens' = << >>)
       ]_vars

\* a model was selected during a generation, its load has resolved, and the
\* generation is still in flight with isStreaming true
C18_Witness ==
  /\ isStreaming
  /\ Len(gens) = 1
  /\ gens[1].switched
  /\ engine = LatestLoad
  /\ engine # gens[1].engine

\* C19: in every state the conversation has even length and alternates
\* user, assistant, user, assistant, ...; every user entry is followed by
\* its assistant entry, and no user entry has empty content.
C19_AlternatingRoles ==
  /\ Len(messages) % 2 = 0
  /\ \A i \in 1..Len(messages) :
       /\ messages[i].role = (IF i % 2 = 1 THEN "user" ELSE "assistant")
       /\ (messages[i].role = "user" => Len(messages[i].content) > 0)

\* two turns are in the conversation, the first answered by an error marker,
\* the second still holding its empty placeholder
C19_Witness ==
  /\ Len(messages) = 4
  /\ messages[2].content = <<"!", " ", "e">>
  /\ messages[4].content = << >>
  /\ gens # << >>

\* C20: conversationRef.current equals the conversation whenever a handler
\* can run, so for every accepted submit the messages passed to the model
\* are the system prompt, then exactly the conversation visible at the
\* submit, then the new user message, without the assistant placeholder and
\* without anything cleared by an earlier reset or model selection.
C20_ContextIsVisibleConversation ==
  /\ conversationRef = messages
  /\ lastOp.op = "send" =>
       LET gen == gens[Len(gens)]
           user == UserMessage(Trim(lastOp.text))
       IN  /\ gen.before = SubSeq(messages, 1, Len(messages) - 2)
           /\ \A rules \in SystemRules :
                /\ RequestMessages(rules, gen.history) =
                     <<[role |-> "system", content |-> activeSystemPrompt(rules)]>>
                       \o gen.before \o <<user>>
                /\ Len(RequestMessages(rules, gen.history)) = Len(gen.before) + 2
                /\ activeSystemPrompt(rules) \in {<<"R">>, <<"r">>}

\* a submit has just been accepted on a conversation emptied by handleReset
C20_Witness ==
  /\ lastOp.op = "send"
  /\ engineStatus.kind = "cleared"
  /\ Len(messages) = 2
  /\ gens[1].history = <<UserMessage(<<"a">>)>>
  /\ gens[1].before = << >>

====
